---------------------------- MODULE Spec2Model ----------------------------
(***************************************************************************)
(* Model of the dopamine-modulated Hebbian network of hebbianRL:           *)
(*   support/hebbianRL.py   RLnetwork, the run / episode / batch loop      *)
(*   support/external.py    the numeric primitives it calls                *)
(*                                                                         *)
(* Numbers.  The program computes on floats; the model computes the same   *)
(* expressions on integers.  An activation of 1.0 (a softmax row sums to   *)
(* 1) is the integer 1.  Weights of W_in and pixels are held in tenths     *)
(* (the initial draw from [1.0, 2.0) is 10..19), so the containment bounds *)
(* 940.801 and 0.2 of the adult period are 9408 and 2.  The clipping floor *)
(* 1e-10 is below that resolution and is the smallest positive weight, 1.  *)
(* The dopamine constants of the critical period (0.0, 0.2, -0.3, -0.5)    *)
(* gate the action layer only and are held in tenths (0, 2, -3, -5).  The  *)
(* learning rates are integers: the scales of the activations and of the   *)
(* dopamine values are part of them, and so is the factor 1e-4 of the      *)
(* action layer.  learningStep itself is computed exactly.                 *)
(*                                                                         *)
(* The forward pass (log, dot product, exp) is not computed: the model     *)
(* takes its results, the hidden and action softmax rows of each example   *)
(* and the predicted action, from the values they can have.  The random    *)
(* draws (initial weights, shuffle, exploration mask, noise) are choices.  *)
(*                                                                         *)
(* Scope.  The action layer is trained (classifier other than 'bayesian',  *)
(* line 46).  The protocol is 'digit' or 'gabor': under 'digit', and in    *)
(* the critical period of 'gabor', an episode draws from images/labels;    *)
(* in the adult period of 'gabor' it draws from images_task/labels_task    *)
(* (lines 75-78).  Where the forward pass itself is the subject (lines     *)
(* 102-132), propL1 and softmax are computed on weights that are powers    *)
(* of two, whose logarithm is an integer.                                  *)
(***************************************************************************)
EXTENDS Integers, Sequences, FiniteSets, TLC

(***************************************************************************)
(* Sequences and matrices (a matrix is a sequence of rows).                *)
(***************************************************************************)
RECURSIVE SumSeq(_)
SumSeq(s) == IF s = <<>> THEN 0 ELSE s[1] + SumSeq(Tail(s))

RECURSIVE MinSeq(_)
MinSeq(s) ==
    IF Len(s) = 1 THEN s[1]
    ELSE LET m == MinSeq(Tail(s)) IN IF s[1] <= m THEN s[1] ELSE m

\* column j of matrix M as a sequence
Col(M, j) == [i \in 1..Len(M) |-> M[i][j]]

\* np.sum(M, 0)[j] and np.min(M, 0)[j]
ColSum(M, j) == SumSeq(Col(M, j))
ColMin(M, j) == MinSeq(Col(M, j))

\* element-wise M + D
MatAdd(M, D) == [i \in 1..Len(M) |-> [j \in 1..Len(M[i]) |-> M[i][j] + D[i][j]]]

\* an all-v vector of length n: np.zeros(n), np.ones(n)
Const(n, v) == [k \in 1..n |-> v]

\* np.argmax of a row: the first index that holds the maximum (1-based)
ArgMax(row) ==
    CHOOSE j \in 1..Len(row) :
        /\ \A k \in 1..Len(row) : row[k] <= row[j]
        /\ \A k \in 1..(j-1) : row[k] < row[j]


(***************************************************************************)
(* support/external.py: the numeric primitives.                            *)
(***************************************************************************)

\* learningStep with the modulation left out of the learning rate
learningStep_noGate(preNeurons, postNeurons, W, lr, disinhib) ==
    LET postNeurons_lr ==
            [bb \in 1..Len(postNeurons) |->
                [j \in 1..Len(postNeurons[bb]) |-> postNeurons[bb][j] * lr]]
    IN  [i \in 1..Len(W) |-> [j \in 1..Len(W[i]) |->
            SumSeq([bb \in 1..Len(preNeurons) |->
                        preNeurons[bb][i] * postNeurons_lr[bb][j]])
            - SumSeq([bb \in 1..Len(postNeurons_lr) |-> postNeurons_lr[bb][j]])
              * W[i][j]]]

\* learningStep without the decay term  np.sum(postNeurons_lr, 0)*W
learningStep_noDecay(preNeurons, postNeurons, W, lr, disinhib) ==
    LET postNeurons_lr ==
            [bb \in 1..Len(postNeurons) |->
                [j \in 1..Len(postNeurons[bb]) |->
                    postNeurons[bb][j] * (lr * disinhib[bb])]]
    IN  [i \in 1..Len(W) |-> [j \in 1..Len(W[i]) |->
            SumSeq([bb \in 1..Len(preNeurons) |->
                        preNeurons[bb][i] * postNeurons_lr[bb][j]])]]

\* learningStep(preNeurons, postNeurons, W, lr, disinhib):
\*   postNeurons_lr = postNeurons * (lr * disinhib[:,np.newaxis])
\*   return np.dot(preNeurons.T, postNeurons_lr) - np.sum(postNeurons_lr, 0)*W
\* preNeurons is batch x pre, postNeurons batch x post, W pre x post.
learningStep(preNeurons, postNeurons, W, lr, disinhib) ==
    LET postNeurons_lr ==
            [bb \in 1..Len(postNeurons) |->
                [j \in 1..Len(postNeurons[bb]) |->
                    postNeurons[bb][j] * (lr * disinhib[bb])]]
        dot ==
            [i \in 1..Len(W) |-> [j \in 1..Len(W[i]) |->
                SumSeq([bb \in 1..Len(preNeurons) |->
                            preNeurons[bb][i] * postNeurons_lr[bb][j]])]]
        colsum ==
            [j \in 1..Len(W[1]) |->
                SumSeq([bb \in 1..Len(postNeurons_lr) |-> postNeurons_lr[bb][j]])]
    IN  [i \in 1..Len(W) |-> [j \in 1..Len(W[i]) |->
            dot[i][j] - colsum[j] * W[i][j]]]

\* one pass of the loop of compute_reward for class index i
RewardPass(reward, labels, classes, actions, rActions, i) ==
    [k \in 1..Len(labels) |->
        IF labels[k] = classes[i] /\ actions[k] = rActions[i] THEN 1 ELSE reward[k]]

RECURSIVE RewardLoop(_, _, _, _, _, _)
RewardLoop(reward, labels, classes, actions, rActions, i) ==
    IF i > Len(classes) THEN reward
    ELSE RewardLoop(RewardPass(reward, labels, classes, actions, rActions, i),
                    labels, classes, actions, rActions, i + 1)

\* compute_reward(labels, classes, actions, rActions):
\*   reward = np.zeros(len(labels)); for i in range(len(classes)):
\*     reward[(labels==classes[i]) & (actions==rActions[i])] = 1
compute_reward(labels, classes, actions, rActions) ==
    RewardLoop(Const(Len(labels), 0), labels, classes, actions, rActions, 1)

\* dopa[mask] = v
Assign(dopa, mask, v) == [k \in 1..Len(dopa) |-> IF mask[k] THEN v ELSE dopa[k]]

\* compute_dopa with the two no-reward values exchanged
compute_dopa_swapped(bPredictActions, bActions, bReward, dHigh, dMid, dNeut, dLow) ==
    LET n  == Len(bActions)
        d1 == Assign(Const(n, 0),
                [k \in 1..n |-> bPredictActions[k] # bActions[k] /\ bReward[k] = 1], dHigh)
        d2 == Assign(d1,
                [k \in 1..n |-> bPredictActions[k] = bActions[k] /\ bReward[k] = 1], dMid)
        d3 == Assign(d2,
                [k \in 1..n |-> bPredictActions[k] # bActions[k] /\ bReward[k] = 0], dLow)
    IN  Assign(d3,
                [k \in 1..n |-> bPredictActions[k] = bActions[k] /\ bReward[k] = 0], dNeut)

\* compute_dopa(bPredictActions, bActions, bReward, dHigh, dMid, dNeut, dLow):
\* four masked assignments on np.zeros(len(bActions)), in the order of the code
compute_dopa(bPredictActions, bActions, bReward, dHigh, dMid, dNeut, dLow) ==
    LET n  == Len(bActions)
        d1 == Assign(Const(n, 0),
                [k \in 1..n |-> bPredictActions[k] # bActions[k] /\ bReward[k] = 1], dHigh)
        d2 == Assign(d1,
                [k \in 1..n |-> bPredictActions[k] = bActions[k] /\ bReward[k] = 1], dMid)
        d3 == Assign(d2,
                [k \in 1..n |-> bPredictActions[k] # bActions[k] /\ bReward[k] = 0], dNeut)
    IN  Assign(d3,
                [k \in 1..n |-> bPredictActions[k] = bActions[k] /\ bReward[k] = 0], dLow)


(***************************************************************************)
(* Floating point.  A quotient a/b of the program is held exactly, as the  *)
(* pair of a and b; when b is zero the result is what IEEE 754 division    *)
(* gives (numpy warns and does not raise): nan for 0/0, inf or -inf else.  *)
(***************************************************************************)

\* a / b on floats
FloatDiv(a, b) ==
    IF b # 0 THEN [kind |-> "finite", num |-> a, den |-> b]
    ELSE IF a = 0 THEN [kind |-> "nan", num |-> 0, den |-> 0]
    ELSE IF a > 0 THEN [kind |-> "inf", num |-> 0, den |-> 0]
    ELSE [kind |-> "-inf", num |-> 0, den |-> 0]

\* q + 1. on floats
FloatAddOne(q) ==
    IF q.kind = "finite" THEN [kind |-> "finite", num |-> q.num + q.den, den |-> q.den]
    ELSE q

\* normalize(images, A):
\*   return (A-images.shape[1])*images/np.sum(images,1)[:,np.newaxis] + 1.
normalize(images_, A) ==
    [k \in 1..Len(images_) |-> [i \in 1..Len(images_[k]) |->
        FloatAddOne(FloatDiv((A - Len(images_[1])) * images_[k][i], SumSeq(images_[k])))]]

\* np.exp of a float64 overflows to inf above 709.78 and underflows to 0. below
\* -745.13
ExpOverflow == 709
ExpUnderflow == -745

\* np.exp(v/t) for the temperature t = t[1]/t[2], by the kind of its value:
\* "inf", "zero" or "pos" (a finite positive number)
ExpKind(v, t) ==
    IF v * t[2] > ExpOverflow * t[1] THEN "inf"
    ELSE IF v * t[2] < ExpUnderflow * t[1] THEN "zero"
    ELSE "pos"

\* np.sum of a row of such values
SumKind(row) ==
    IF \E i \in DOMAIN row : row[i] = "inf" THEN "inf"
    ELSE IF \E i \in DOMAIN row : row[i] = "pos" THEN "pos"
    ELSE "zero"

\* p / total of such values
DivKind(p, total) ==
    CASE total = "pos" -> p
      [] total = "inf" -> (IF p = "inf" THEN "nan" ELSE "zero")
      [] total = "zero" -> (IF p = "zero" THEN "nan" ELSE "inf")

RECURSIVE MaxSeq(_)
MaxSeq(s) ==
    IF Len(s) = 1 THEN s[1]
    ELSE LET m == MaxSeq(Tail(s)) IN IF s[1] >= m THEN s[1] ELSE m

\* np.argmin(row): the first index of the minimum
ArgMin(row) == CHOOSE i \in 1..Len(row) :
                  /\ row[i] = MinSeq(row)
                  /\ \A j \in 1..(i - 1) : row[j] # MinSeq(row)

\* the thresholds of the iterative branch of softmax (lines 53-56)
SM_high == 700
SM_low == -740

\* softmax, vectorial branch (lines 43-46), for one row
softmax_vectorial_row(I, t) ==
    LET activ_norm == [i \in 1..Len(I) |-> I[i] - MaxSeq(I)]
        ex == [i \in 1..Len(I) |-> ExpKind(activ_norm[i], t)]
    IN  [i \in 1..Len(I) |-> DivKind(ex[i], SumKind(ex))]

\* softmax, iterative branch (lines 49-58), for one row
softmax_iterative_row(row, t) ==
    LET scale == IF MaxSeq(row) > SM_high THEN MaxSeq(row) - SM_high ELSE 0
        I == IF MinSeq(row) < SM_low + scale
             THEN [i \in 1..Len(row) |-> IF i = ArgMin(row) THEN SM_low + scale ELSE row[i]]
             ELSE row
        ex == [i \in 1..Len(I) |-> ExpKind(I[i] - scale, t)]
    IN  [i \in 1..Len(I) |-> DivKind(ex[i], SumKind(ex))]

\* softmax(activ, vectorial, t): each entry of the result by its kind; a row
\* whose entries are "pos" or "zero", with a "pos" among them, is a row of
\* finite quotients p/sum(p), which sum to 1
softmax(activ, vectorial, t) ==
    [k \in 1..Len(activ) |->
        IF vectorial THEN softmax_vectorial_row(activ[k], t)
        ELSE softmax_iterative_row(activ[k], t)]

\* np.roll(perf, 1, 1): every row shifted by one column, the last column
\* re-entering as the first
Roll(perf) ==
    [ic \in 1..Len(perf) |-> [j \in 1..Len(perf[ic]) |->
        perf[ic][((j - 2) % Len(perf[ic])) + 1]]]

\* track_perf(perf, classes, bLabels, pred_bLabels), external.py lines 155-173
track_perf(perf, classes, bLabels, pred_bLabels) ==
    LET rolled == Roll(perf)
        \* len(bLabels[bLabels==c])
        present(c) == Cardinality({k \in 1..Len(bLabels) : bLabels[k] = c})
        \* np.sum(bLabels[pred_bLabels==c] == pred_bLabels[pred_bLabels==c])
        hits(c) == Cardinality({k \in 1..Len(bLabels) :
                                    pred_bLabels[k] = c /\ bLabels[k] = c})
    IN  [ic \in 1..Len(perf) |-> [j \in 1..Len(perf[ic]) |->
            IF j = 1 /\ ic <= Len(classes) /\ present(classes[ic]) # 0
            THEN FloatDiv(hits(classes[ic]), present(classes[ic]))
            ELSE rolled[ic][j]]]

(***************************************************************************)
(* helper/pypet_helper.py: one point of a parameter exploration.  A call   *)
(* yields [kind |-> "return", value |-> v] or [kind |-> "raise", exc |->   *)
(* the exception's class].  hebbian_net.Network is not part of the model:  *)
(* what its constructor, train and test do for a parameter point (return   *)
(* a performance or raise) is an input, net.                               *)
(***************************************************************************)

\* launch_one_exploration (lines 20-32): build, train and test the network,
\* then pickle it to <save_path>/networks/<name>; open() raises IOError when
\* the directory does not exist
launch_one_exploration(net, networks_dir) ==
    IF net.kind = "raise" THEN net
    ELSE IF ~networks_dir THEN [kind |-> "raise", exc |-> "IOError"]
    ELSE [kind |-> "return", value |-> net.value]

\* launch_exploration (lines 10-18): the results added to the trajectory for
\* the point, or the exception that leaves the function
launch_exploration(net, networks_dir) ==
    LET one == launch_one_exploration(net, networks_dir)
    IN  IF one.kind = "return"
        THEN [kind |-> "return", results |-> <<one.value>>]
        ELSE IF one.exc = "ValueError"
        THEN [kind |-> "return", results |-> << <<-1>> >>]
        ELSE [kind |-> "raise", exc |-> one.exc, results |-> <<>>]

(***************************************************************************)
(* set_run_names.  A string is a sequence of characters.  A value of the   *)
(* explored lists is an int, [int |-> n], or a float of [0.1, 1) given by  *)
(* its decimal digits after the point, [frac |-> digits].  str() of a      *)
(* float keeps 12 significant digits (Python 2, '%.12g').                  *)
(***************************************************************************)
DigitChars == <<"0", "1", "2", "3", "4", "5", "6", "7", "8", "9">>

\* the significant digits str() keeps of a float
StrPrecision == 12

RECURSIVE StripZeros(_)
StripZeros(d) ==
    IF d # <<>> /\ d[Len(d)] = 0 THEN StripZeros(SubSeq(d, 1, Len(d) - 1)) ELSE d

\* the digits d plus one unit in the last place; carry: the digits were all 9
RECURSIVE Increment(_)
Increment(d) ==
    IF d = <<>> THEN [carry |-> 1, digits |-> <<>>]
    ELSE IF d[Len(d)] < 9
    THEN [carry |-> 0, digits |-> [i \in 1..Len(d) |-> IF i = Len(d) THEN d[i] + 1 ELSE d[i]]]
    ELSE LET up == Increment(SubSeq(d, 1, Len(d) - 1))
         IN  [carry |-> up.carry, digits |-> up.digits \o <<0>>]

\* the digits of a float rounded to StrPrecision significant digits
RoundDigits(frac) ==
    IF Len(frac) <= StrPrecision THEN [carry |-> 0, digits |-> frac]
    ELSE IF frac[StrPrecision + 1] >= 5 THEN Increment(SubSeq(frac, 1, StrPrecision))
    ELSE [carry |-> 0, digits |-> SubSeq(frac, 1, StrPrecision)]

\* str(n) for 0 <= n < 100
StrInt(n) ==
    IF n < 10 THEN <<DigitChars[n + 1]>>
    ELSE <<DigitChars[(n \div 10) + 1], DigitChars[(n % 10) + 1]>>

\* str(v)
Str(v) ==
    IF "int" \in DOMAIN v THEN StrInt(v.int)
    ELSE LET rd == RoundDigits(v.frac)
             d == StripZeros(rd.digits)
         IN  <<DigitChars[rd.carry + 1], ".">>
             \o (IF d = <<>> THEN <<"0">> ELSE [i \in 1..Len(d) |-> DigitChars[d[i] + 1]])

\* s.replace('.', ',')
ReplaceDot(str) == [i \in 1..Len(str) |-> IF str[i] = "." THEN "," ELSE str[i]]

\* the inner loop of set_run_names (lines 42-45) from the k-th key on
RECURSIVE AppendKeys(_, _, _, _)
AppendKeys(runName, explore_dict, n, k) ==
    IF k > Len(explore_dict) THEN runName
    ELSE AppendKeys(runName \o <<"_">> \o explore_dict[k].key
                            \o ReplaceDot(Str(explore_dict[k].values[n])),
                    explore_dict, n, k + 1)

\* set_run_names(explore_dict, name); explore_dict is the sequence of its
\* items [key, values] in the order of explore_dict.keys()
set_run_names(explore_dict, name) ==
    LET nXplr == Len(explore_dict[1].values)
    IN  [n \in 1..nXplr |-> AppendKeys(name, explore_dict, n, 1)]

(***************************************************************************)
(* save_data and load_data.  The files of a run directory are a function   *)
(* from file name to content.                                              *)
(***************************************************************************)

\* pickle.dump / pickle.load
Pickle(x) == [pickled |-> x]
Unpickle(f) == f.pickled

\* the keys load_data reads from settings.txt without a try (lines 300-328)
LoadedKeys == {"classes", "rActions", "nEpiCrit", "target", "nEpiProc", "nEpiAch",
               "nEpiDopa", "nHidNeurons", "bestAction", "feedback", "lrCrit",
               "lrAdlt", "aHigh", "aLow", "dHigh", "dNeut", "dLow", "classifier",
               "dataset", "nRun", "nBatch", "A"}

\* the keys of the configuration of RLnetwork, its parameters (lines 29-32)
KwargsKeys == {"classes", "rActions", "nRun", "nEpiCrit", "nEpiDopa", "t_hid",
               "t_act", "A", "runName", "dataset", "nHidNeurons", "lim_weights",
               "lr", "e_greedy", "epsilon", "noise_std", "pdf_method", "aHigh",
               "aPairing", "dHigh", "dMid", "dNeut", "dLow", "nBatch", "protocol",
               "target_ori", "excentricity", "noise_crit", "noise_train",
               "noise_test", "im_size", "classifier", "pypet_xplr",
               "test_each_epi", "SVM", "exploration", "createOutput", "showPlots",
               "show_W_act", "sort", "target", "seed", "comment"}

\* save_data(W_in, W_act, args) (lines 239-264): the files of output/<runName>
\* after the call; files are the files that were there before
save_data(files, W_in_, W_act_, keys) ==
    [f \in DOMAIN files \cup {"W_in", "W_act", "settings.txt"} |->
        CASE f = "W_in" -> Pickle(W_in_)
          [] f = "W_act" -> Pickle(W_act_)
          [] f = "settings.txt" -> keys
          [] OTHER -> files[f]]

\* load_data([runName], path) (lines 266-332) on the files of path + runName
load_data(files) ==
    IF \E f \in {"W_in", "W_act", "classResults", "RFclass"} : f \notin DOMAIN files
    THEN [kind |-> "raise", exc |-> "IOError"]
    ELSE IF "settings.txt" \notin DOMAIN files \/ ~(LoadedKeys \subseteq files["settings.txt"])
    THEN [kind |-> "raise", exc |-> "KeyError"]
    ELSE [kind |-> "return", W_in |-> Unpickle(files["W_in"]),
          W_act |-> Unpickle(files["W_act"])]

(***************************************************************************)
(* The two calls of the batch body whose callee is not the definition of   *)
(* external.py above: line 135 passes two arrays to compute_reward and     *)
(* lines 151 and 158 pass (predicted_reward, bReward) to compute_dopa.     *)
(* These callees compare their two arguments element by element.           *)
(***************************************************************************)

\* compute_reward(rActions[bLabels], bActions) of line 135
compute_reward_2(rewarded, actions) ==
    [k \in 1..Len(actions) |-> IF rewarded[k] = actions[k] THEN 1 ELSE 0]

\* compute_dopa(predicted_reward, bReward, dHigh=, dMid=, dNeut=, dLow=)
compute_dopa_2(predicted_reward, bReward, dHigh, dMid, dNeut, dLow) ==
    [k \in 1..Len(bReward) |->
        IF bReward[k] = 1
        THEN (IF predicted_reward[k] THEN dMid ELSE dHigh)
        ELSE (IF predicted_reward[k] THEN dLow ELSE dNeut)]

(***************************************************************************)
(* Inputs and bounds of the model.                                         *)
(***************************************************************************)
MaxRun == 2            \* nRun ranges over 1..MaxRun
MaxEpiCrit == 1        \* nEpiCrit ranges over 0..MaxEpiCrit
MaxEpiDopa == 1        \* nEpiDopa ranges over 0..MaxEpiDopa
MaxPresented == 3      \* images presented in one call: nRun * nEpiTot * nImages

\* the pool the training set is a prefix of: pixel rows (tenths) and labels
AllImages == << <<4700, 4700>>, <<9000, 400>>, <<400, 9000>> >>
AllLabels == <<0, 1, 1>>

\* rewarded action of each class, and the action of each action neuron
rActions == <<"a", "b">>

\* the digit classes of the task: the labels of the pool, in either order
ClassSets == { <<0, 1>>, <<1, 0>> }

nHidNeurons == 2

\* the rows softmax returns at the resolution of the model (1.0 is 1): the
\* saturated rows, in which one unit has won the competition
SoftmaxRows == { <<1, 0>>, <<0, 1>> }

\* np.random.random_sample(size) + 1.0, in tenths
W_in_samples == << << <<10, 15>>, <<19, 12>> >>, << <<17, 11>>, <<13, 18>> >> >>
W_in_draws == {W_in_samples[i] : i \in DOMAIN W_in_samples}

\* (np.random.random_sample(size)/1000 + 1.0)/nHidNeurons: 0.5 at this resolution
W_act_samples == << << <<2, 2>>, <<2, 2>> >> >>
W_act_draws == {W_act_samples[i] : i \in DOMAIN W_act_samples}

\* the classifier names of the configurations: the action layer of RLnetwork,
\* and 'neural_prob', the name the launch scripts pass (launch.py line 76)
Classifiers == {"actionNeurons", "neural_prob"}

\* the names checkClassifier accepts (external.py line 368)
LegalClassifiers == {"neuronClass", "SVM", "actionNeurons"}

\* the names for which lines 272-275 assign allCMs and allPerf
DispatchedClassifiers == {"actionNeurons", "SVM", "neuronClass", "bayesian"}

\* the seeds of the configurations
Seeds == {0, 1}

\* the generator as the process left it before RLnetwork: not seeded by it
Unseeded == [seed |-> -1, drawn |-> 0]

\* perf_epi of a run: no performance is appended (test_each_epi off, line 206)
perf_epi == <<>>

\* the learning rate of the hidden layer, and lr*1e-4 of the action layer
lr == 1
lr_act == 1

\* the dopamine values of the critical period, line 151, in tenths
dHigh_crit == 0
dMid_crit == 2
dNeut_crit == -3
dLow_crit == -5

\* the configured dopamine values of the adult period
dHigh == 2
dMid == 1
dNeut == -1
dLow == -2

\* np.clip(W, 1e-10, np.inf): the floor is the smallest positive weight
W_floor == 1
\* np.sum(W_in+dW_in,0) <= 940.801 and np.min(W_in+dW_in,0) > 0.2, in tenths
W_sum_max == 9408
W_min_min == 2


(***************************************************************************)
(* The forward pass of a batch, hebbianRL.py lines 102-129, for a trained  *)
(* action layer.  The weights are powers of two and the logarithm is held  *)
(* in units of ln 2.  The softmax is held in its winner-take-all limit:    *)
(* the maxima of a row share the activation 1.0, held as Fact(n) for a row *)
(* of n neurons so that every share is an integer.                         *)
(***************************************************************************)

\* accel.log(w) in units of ln 2, for w a power of two up to 8
Log(w) == CHOOSE n \in 0..3 : 2 ^ n = w

RECURSIVE Fact(_)
Fact(n) == IF n <= 1 THEN 1 ELSE n * Fact(n - 1)

\* propL1(bInput, W, SM=False): np.dot(bInput, accel.log(W))
propL1(bInput, W) ==
    [k \in 1..Len(bInput) |-> [j \in 1..Len(W[1]) |->
        SumSeq([i \in 1..Len(W) |-> bInput[k][i] * Log(W[i][j])])]]

\* softmax(activ, t) for t small against the gaps between the activations
softmax_wta(activ) ==
    [k \in 1..Len(activ) |->
        LET top == MaxSeq(activ[k])
            nTop == Cardinality({j \in 1..Len(activ[k]) : activ[k][j] = top})
        IN  [j \in 1..Len(activ[k]) |->
                IF activ[k][j] = top THEN Fact(Len(activ[k])) \div nTop ELSE 0]]

\* a[exploratory] += noise[exploratory]
AddNoise(a, noise, mask) ==
    [k \in 1..Len(a) |-> [j \in 1..Len(a[k]) |->
        IF mask[k] THEN a[k][j] + noise[k][j] ELSE a[k][j]]]

\* rActions[np.argmax(a, 1)]
ActionOf(a) == [k \in 1..Len(a) |-> rActions[ArgMax(a[k])]]

\* the forward pass with the predicted action read after the noise of the
\* action layer
forward_predictAfterNoise(bImages_, W_in_, W_act_, critical, exploration_, mask, noise_hid, noise_act) ==
    LET h0 == propL1(bImages_, W_in_)
        a0 == propL1(softmax_wta(h0), W_act_)
        noisyHid == exploration_ /\ ~critical
        hid == softmax_wta(IF noisyHid THEN AddNoise(h0, noise_hid, mask) ELSE h0)
        a1 == IF noisyHid THEN propL1(hid, W_act_) ELSE a0
        a2 == IF critical THEN AddNoise(a1, noise_act, mask) ELSE a1
        act == softmax_wta(a2)
    IN  [bPredictActions |-> ActionOf(a2), bHidNeurons |-> hid,
         bActNeurons |-> act, bActions |-> ActionOf(act)]

\* lines 102-129: from the images of the batch to the action taken; mask,
\* noise_hid and noise_act are what np.random returns at lines 113-114 and
\* 123-125
forward(bImages_, W_in_, W_act_, critical, exploration_, mask, noise_hid, noise_act) ==
    LET \* lines 103-106
        h0 == propL1(bImages_, W_in_)
        a0 == propL1(softmax_wta(h0), W_act_)
        pred == ActionOf(a0)
        \* lines 112-118
        noisyHid == exploration_ /\ ~critical
        hid == softmax_wta(IF noisyHid THEN AddNoise(h0, noise_hid, mask) ELSE h0)
        a1 == IF noisyHid THEN propL1(hid, W_act_) ELSE a0
        \* lines 122-126
        a2 == IF critical THEN AddNoise(a1, noise_act, mask) ELSE a1
        act == softmax_wta(a2)
    IN  \* line 129
        [bPredictActions |-> pred, bHidNeurons |-> hid,
         bActNeurons |-> act, bActions |-> ActionOf(act)]

(***************************************************************************)
(* State of one call of RLnetwork.                                         *)
(***************************************************************************)
VARIABLES
    images, labels, classes,        \* arguments: the training set, the classes
    nRun, nEpiCrit, nEpiDopa,       \* arguments: the shape of the training
    nBatch, lim_weights,            \* arguments
    e_greedy, exploration,          \* arguments: the exploration policy
    classifier, seed,               \* arguments
    protocol,                       \* argument: 'digit' or 'gabor'
    images_task, labels_task,       \* arguments: the task set of 'gabor'
    dParams2,                       \* dHigh, dMid, dNeut, dLow of a second call
    W_in2, W_act2,                  \* the weights of the second call
    rng,                            \* the state of numpy's global generator
    pc,                             \* the position in RLnetwork
    r, e, b,                        \* the three loop indices
    W_in, W_act,                    \* the weights of the current run
    rndImages, rndLabels,           \* the shuffled training set of the episode
    bImages, bLabels,               \* the examples of the batch
    bHidNeurons, bActNeurons,       \* activations after the softmax
    bPredictActions, bActions,      \* predicted action, action taken
    exploratory,                    \* the exploration mask (<<>>: not yet bound)
    bReward, predicted_reward,
    ach, dopa, disinhib_Hid, disinhib_Act,
    dW_in, dW_act,
    W_in_save, W_act_save,          \* the run collection
    perf_save,                      \* the run collection: performance traces
    fn, arg, ret                    \* a primitive applied on its own

args == <<images, labels, classes, nRun, nEpiCrit, nEpiDopa, nBatch,
          lim_weights, e_greedy, exploration, classifier, seed,
          protocol, images_task, labels_task, dParams2>>
batch_vars == <<bImages, bLabels, bHidNeurons, bActNeurons, bPredictActions,
                bActions, exploratory, bReward, predicted_reward, ach, dopa,
                disinhib_Hid, disinhib_Act, dW_in, dW_act>>
loop_vars == <<pc, r, e, b, W_in, W_act, rndImages, rndLabels,
               W_in_save, W_act_save>>
run_vars == <<rng, perf_save>>
pair_vars == <<W_in2, W_act2>>
fn_vars == <<fn, arg, ret>>
vars == <<args, batch_vars, loop_vars, run_vars, pair_vars, fn_vars>>

nClasses == Len(classes)                \* line 39
nEpiTot == nEpiCrit + nEpiDopa          \* line 42
nImages == Len(images)                  \* line 43
nInpNeurons == Len(images[1])           \* line 44
nActNeurons == nClasses                 \* line 45
\* the number of batches rounded up instead of down
nBatches_ceil == (nImages + nBatch - 1) \div nBatch

nBatches == nImages \div nBatch         \* int(nImages/nBatch), line 81

\* str(r) without the padding, for r < 10
RunKey_unpadded(n) ==
    <<"0", "1", "2", "3", "4", "5", "6", "7", "8", "9">>[(n % 10) + 1]

\* str(r).zfill(3) for r < 1000
RunKey(n) ==
    LET d == <<"0", "1", "2", "3", "4", "5", "6", "7", "8", "9">>
    IN  d[((n \div 100) % 10) + 1] \o d[((n \div 10) % 10) + 1] \o d[(n % 10) + 1]

\* a[idx] for a list of 0-based indices
Take(a, idx) == [k \in 1..Len(idx) |-> a[idx[k] + 1]]

\* the update without the clipping
Clip_none(W) == W

\* np.clip(W, 1e-10, np.inf)
Clip(W) ==
    [i \in 1..Len(W) |-> [j \in 1..Len(W[i]) |->
        IF W[i][j] < W_floor THEN W_floor ELSE W[i][j]]]

\* the permutations of 1..n
Perms(n) == {p \in [1..n -> 1..n] : \A i, j \in 1..n : i # j => p[i] # p[j]}

\* the state before the first statement of RLnetwork
InitLoop ==
    /\ pc = "run" /\ r = 0 /\ e = 0 /\ b = 0
    /\ W_in = <<>> /\ W_act = <<>>
    /\ W_in2 = <<>> /\ W_act2 = <<>>
    /\ rndImages = <<>> /\ rndLabels = <<>>
    /\ bImages = <<>> /\ bLabels = <<>>
    /\ bHidNeurons = <<>> /\ bActNeurons = <<>>
    /\ bPredictActions = <<>> /\ bActions = <<>>
    /\ exploratory = <<>>
    /\ bReward = <<>> /\ predicted_reward = <<>>
    /\ ach = <<>> /\ dopa = <<>>
    /\ disinhib_Hid = <<>> /\ disinhib_Act = <<>>
    /\ dW_in = <<>> /\ dW_act = <<>>
    /\ W_in_save = [key \in {} |-> <<>>] /\ W_act_save = [key \in {} |-> <<>>]
    /\ perf_save = [key \in {} |-> <<>>]
    /\ rng = Unseeded

NoCall == fn = "none" /\ arg = <<>> /\ ret = <<>>

Init ==
    /\ \E n \in 1..Len(AllImages) :
        /\ images = SubSeq(AllImages, 1, n)
        /\ labels = SubSeq(AllLabels, 1, n)
    /\ classes = <<0, 1>>
    /\ nRun \in 1..MaxRun
    /\ nEpiCrit \in 0..MaxEpiCrit
    /\ nEpiDopa \in 0..MaxEpiDopa
    /\ nRun * (nEpiCrit + nEpiDopa) * Len(images) <= MaxPresented
    /\ nBatch \in 1..Len(images)
    /\ lim_weights \in BOOLEAN
    /\ e_greedy = FALSE
    /\ exploration = TRUE
    /\ classifier = "actionNeurons"
    /\ seed = 0
    /\ protocol = "digit" /\ images_task = images /\ labels_task = labels
    /\ dParams2 = <<dHigh, dMid, dNeut, dLow>>
    /\ InitLoop
    /\ NoCall

\* the configurations in which the classifier and the seed vary
InitRuns ==
    /\ \E n \in 1..Len(AllImages) :
        /\ images = SubSeq(AllImages, 1, n)
        /\ labels = SubSeq(AllLabels, 1, n)
    /\ classes = <<0, 1>>
    /\ nRun \in 1..MaxRun
    /\ nEpiCrit \in 0..MaxEpiCrit
    /\ nEpiDopa \in 0..MaxEpiDopa
    /\ nRun * (nEpiCrit + nEpiDopa) * Len(images) <= MaxPresented
    /\ nBatch \in 1..Len(images)
    /\ lim_weights = FALSE
    /\ e_greedy = FALSE
    /\ exploration = FALSE
    /\ classifier \in Classifiers
    /\ seed \in Seeds
    /\ protocol = "digit" /\ images_task = images /\ labels_task = labels
    /\ dParams2 = <<dHigh, dMid, dNeut, dLow>>
    /\ InitLoop
    /\ NoCall


(***************************************************************************)
(* The body of RLnetwork, support/hebbianRL.py.                            *)
(***************************************************************************)

\* the arrays after the first left in their order
shuffle_firstOnly(arrays, rndIdx) ==
    [a \in 1..Len(arrays) |-> [k \in 1..Len(rndIdx) |->
        arrays[a][IF a = 1 THEN rndIdx[k] ELSE k]]]

\* shuffle(arrays): every array reordered by the same rndIdx
shuffle(arrays, rndIdx) ==
    [a \in 1..Len(arrays) |-> [k \in 1..Len(rndIdx) |-> arrays[a][rndIdx[k]]]]

\* the boundary of the periods one episode late
Critical_late(epi) == epi <= nEpiCrit

\* e < nEpiCrit: the episode belongs to the critical period
Critical(epi) == epi < nEpiCrit

\* rndImages[b*nBatch:(b+1)*nBatch], a Python slice of a list of length Len(a)
BatchSlice(a, bb) ==
    LET lo == bb * nBatch
        hi == IF (bb + 1) * nBatch < Len(a) THEN (bb + 1) * nBatch ELSE Len(a)
    IN  SubSeq(a, lo + 1, hi)

\* the gates with the two periods exchanged
Gates_swapped(epi, ach_, dopa_) ==
    IF ~Critical(epi)
    THEN [hid |-> ach_, act |-> dopa_]
    ELSE [hid |-> [k \in 1..Len(ach_) |-> ach_[k] * dopa_[k]],
          act |-> Const(nBatch, 0)]

\* the gates with the action layer left plastic in the adult period (the
\* alternative that line 161 keeps as a comment)
Gates_actPlastic(epi, ach_, dopa_) ==
    IF Critical(epi)
    THEN [hid |-> ach_, act |-> dopa_]
    ELSE [hid |-> [k \in 1..Len(ach_) |-> ach_[k] * dopa_[k]],
          act |-> dopa_]

\* lines 146-163: the plasticity gates [hid, act] of the batch
Gates(epi, ach_, dopa_) ==
    IF Critical(epi)
    THEN [hid |-> ach_, act |-> dopa_]
    ELSE [hid |-> [k \in 1..Len(ach_) |-> ach_[k] * dopa_[k]],
          act |-> Const(nBatch, 0)]

\* lines 147-158: the dopamine signal of the batch
Dopa(epi, predicted, reward) ==
    IF Critical(epi)
    THEN compute_dopa_2(predicted, reward, dHigh_crit, dMid_crit, dNeut_crit, dLow_crit)
    ELSE compute_dopa_2(predicted, reward, dHigh, dMid, dNeut, dLow)

\* the update of W_in without the containment of the adult period
UpdateW_in_unmasked(epi, W, dW) == MatAdd(W, dW)

\* lines 170-174: W_in after the update, before the clipping
UpdateW_in(epi, W, dW) ==
    IF Critical(epi) \/ ~lim_weights
    THEN MatAdd(W, dW)
    ELSE LET proj == MatAdd(W, dW)
             mask == [j \in 1..Len(W[1]) |->
                        ColSum(proj, j) <= W_sum_max /\ ColMin(proj, j) > W_min_min]
         IN  [i \in 1..Len(W) |-> [j \in 1..Len(W[i]) |->
                IF mask[j] THEN W[i][j] + dW[i][j] ELSE W[i][j]]]

\* the generator after n more calls of a drawing function of np.random
Draws(rng_, n) == [seed |-> rng_.seed, drawn |-> rng_.drawn + n]

\* np.random.random_sample in generator state rng_: the sample is a function
\* of the seed and of the number of draws made since the seeding
random_sample(samples, rng_) ==
    samples[((rng_.seed + rng_.drawn) % Len(samples)) + 1]

\* the generator left as the run before left it
Reseed_kept(rng_, s) == rng_

\* np.random.seed(s), line 51
Reseed(rng_, s) == [seed |-> s, drawn |-> 0]

\* lines 50-67: a run begins; the generator is seeded and the weights are drawn
StartRunBody ==
    /\ pc = "run"
    /\ LET g == Reseed(rng, seed + r)
       IN  /\ W_in' = random_sample(W_in_samples, g)
           /\ W_act' = random_sample(W_act_samples, Draws(g, 1))
           /\ rng' = Draws(g, 2)
    /\ ach' = Const(nBatch, 0)
    /\ dopa' = Const(nBatch, 0)
    /\ e' = 0
    /\ pc' = IF nEpiTot > 0 THEN "epi" ELSE "save"
    /\ UNCHANGED <<args, fn_vars, perf_save, r, b, rndImages, rndLabels, W_in_save, W_act_save,
                   bImages, bLabels, bHidNeurons, bActNeurons, bPredictActions,
                   bActions, exploratory, bReward, predicted_reward,
                   disinhib_Hid, disinhib_Act, dW_in, dW_act>>

\* a run begins in a single call
StartRun == StartRunBody /\ UNCHANGED pair_vars

\* lines 75-78: the set an episode is trained on, [images, labels]
EpisodeSet(epi) ==
    IF protocol = "digit" \/ (protocol = "gabor" /\ epi < nEpiCrit)
    THEN <<images, labels>>
    ELSE <<images_task, labels_task>>

\* lines 71-78: an episode begins; the training set is shuffled
StartEpisode ==
    /\ pc = "epi"
    /\ \E rndIdx \in Perms(Len(EpisodeSet(e)[1])) :
        /\ rndImages' = shuffle(EpisodeSet(e), rndIdx)[1]
        /\ rndLabels' = shuffle(EpisodeSet(e), rndIdx)[2]
    /\ rng' = Draws(rng, 1)
    /\ b' = 0
    /\ pc' = IF nBatches > 0 THEN "batch" ELSE "epi_end"
    /\ UNCHANGED <<args, pair_vars, fn_vars, perf_save, batch_vars, r, e, W_in, W_act, W_in_save, W_act_save>>

\* lines 81-178: one mini-batch.  A batch that draws no mask reads the name
\* exploratory as the last batch that drew one left it; under e_greedy line
\* 142 raises NameError when no batch has bound it yet
BatchBody ==
    /\ pc = "batch"
    \* lines 91-92
    /\ bImages' = BatchSlice(rndImages, b)
    /\ bLabels' = BatchSlice(rndLabels, b)
    /\ IF Len(bImages') # nBatch
       THEN \* the slice ran past the end of the set: the arrays of the batch
            \* no longer conform to the length-nBatch vectors of lines 95-100
            \* and 113-125, and numpy raises or broadcasts; the run is
            \* followed no further
            /\ pc' = "shape"
            /\ b' = b
            /\ UNCHANGED <<bHidNeurons, bActNeurons, bPredictActions, bActions,
                           exploratory, bReward, predicted_reward, ach, dopa,
                           disinhib_Hid, disinhib_Act, dW_in, dW_act,
                           W_in, W_act, rng>>
       ELSE
       LET drawn == Critical(e) \/ exploration
           Masks == IF drawn
                    THEN (IF e_greedy THEN [1..nBatch -> BOOLEAN]
                                      ELSE {Const(nBatch, TRUE)})
                    ELSE {exploratory}
       IN  \E mask \in Masks :
           \E hid \in [1..nBatch -> SoftmaxRows], act \in [1..nBatch -> SoftmaxRows] :
           \E pred \in [1..nBatch -> 1..nActNeurons] :
            \* an example that received no noise takes the action predicted
            /\ \A k \in 1..nBatch : ~(drawn /\ mask[k]) => pred[k] = ArgMax(act[k])
            /\ exploratory' = mask
            /\ bHidNeurons' = hid
            /\ bActNeurons' = act
            /\ bPredictActions' = [k \in 1..nBatch |-> rActions[pred[k]]]
            /\ bActions' = [k \in 1..nBatch |-> rActions[ArgMax(act[k])]]
            /\ bReward' = compute_reward_2(Take(rActions, bLabels'), bActions')
            \* lines 114-115 and 123-125: the mask (if e_greedy) and the noise
            /\ rng' = Draws(rng, IF drawn THEN (IF e_greedy THEN 2 ELSE 1) ELSE 0)
            /\ IF e_greedy /\ mask = <<>>
               THEN \* line 142: the name exploratory is not bound
                    /\ pc' = "NameError"
                    /\ b' = b
                    \* lines 95-100
                    /\ ach' = Const(nBatch, 1)
                    /\ dopa' = Const(nBatch, 1)
                    /\ disinhib_Hid' = Const(nBatch, 1)
                    /\ disinhib_Act' = Const(nBatch, 0)
                    /\ dW_in' = <<>> /\ dW_act' = <<>>
                    /\ UNCHANGED <<predicted_reward, W_in, W_act>>
               ELSE /\ predicted_reward' =
                         IF e_greedy
                         THEN [k \in 1..nBatch |->
                                bPredictActions'[k] = bActions'[k] \/ ~mask[k]]
                         ELSE [k \in 1..nBatch |-> bPredictActions'[k] = bActions'[k]]
                    /\ ach' = Const(nBatch, 1)
                    /\ dopa' = Dopa(e, predicted_reward', bReward')
                    /\ disinhib_Hid' = Gates(e, ach', dopa').hid
                    /\ disinhib_Act' = Gates(e, ach', dopa').act
                    /\ dW_in' = learningStep(bImages', hid, W_in, lr, disinhib_Hid')
                    /\ dW_act' = learningStep(hid, act, W_act, lr_act, disinhib_Act')
                    /\ W_in' = Clip(UpdateW_in(e, W_in, dW_in'))
                    /\ W_act' = Clip(MatAdd(W_act, dW_act'))
                    /\ IF b + 1 < nBatches
                       THEN b' = b + 1 /\ pc' = "batch"
                       ELSE b' = b /\ pc' = "epi_end"
    /\ UNCHANGED <<args, fn_vars, perf_save, r, e, rndImages, rndLabels, W_in_save, W_act_save>>

\* one mini-batch of a single call
Batch == BatchBody /\ UNCHANGED pair_vars

\* lines 183-214: the diagnostics after an episode; the next episode, if any
EndEpisode ==
    /\ pc = "epi_end"
    /\ IF e + 1 < nEpiTot
       THEN e' = e + 1 /\ pc' = "epi"
       ELSE e' = e /\ pc' = "save"
    /\ UNCHANGED <<args, pair_vars, fn_vars, run_vars, batch_vars, r, b, W_in, W_act, rndImages, rndLabels,
                   W_in_save, W_act_save>>

\* lines 220-223: the weights of the run are stored; the next run, if any
SaveRun ==
    /\ pc = "save"
    /\ W_in_save' = [key \in DOMAIN W_in_save \cup {RunKey(r)} |->
                        IF key = RunKey(r) THEN W_in ELSE W_in_save[key]]
    /\ W_act_save' = [key \in DOMAIN W_act_save \cup {RunKey(r)} |->
                        IF key = RunKey(r) THEN W_act ELSE W_act_save[key]]
    /\ perf_save' = [key \in DOMAIN perf_save \cup {RunKey(r)} |->
                        IF key = RunKey(r) THEN perf_epi ELSE perf_save[key]]
    /\ IF r + 1 < nRun
       THEN r' = r + 1 /\ pc' = "run"
       ELSE r' = r /\ pc' = "stats"
    /\ UNCHANGED <<args, pair_vars, fn_vars, rng, batch_vars, e, b, W_in, W_act, rndImages, rndLabels>>

\* lines 225-285: the statistics, then pdb.set_trace() waits for the terminal
Statistics ==
    /\ pc = "stats"
    /\ pc' = "pdb"
    /\ UNCHANGED <<args, pair_vars, fn_vars, run_vars, batch_vars, r, e, b, W_in, W_act, rndImages,
                   rndLabels, W_in_save, W_act_save>>

\* line 287: the debugger is told to continue and RLnetwork returns allCMs,
\* allPerf, ...; the names are not bound when no line of 272-275 applied
Return ==
    /\ pc = "pdb"
    /\ pc' = IF classifier \in DispatchedClassifiers THEN "done" ELSE "NameError"
    /\ UNCHANGED <<args, pair_vars, fn_vars, run_vars, batch_vars, r, e, b, W_in, W_act, rndImages,
                   rndLabels, W_in_save, W_act_save>>

(***************************************************************************)
(* Two calls of RLnetwork on the same arguments and the same seed, except  *)
(* that the second is given dParams2 for dHigh, dMid, dNeut and dLow.  The *)
(* loops of the two calls go through the same runs, episodes and batches,  *)
(* and the generator gives both the same shuffles, masks and noise; the    *)
(* model follows them in step and keeps the weights of the second call.    *)
(***************************************************************************)

\* the dopamine signal with the configured parameters in both periods (the
\* alternative that line 150 keeps as a comment)
DopaOf_configured(epi, predicted, reward, d) ==
    compute_dopa_2(predicted, reward, d[1], d[2], d[3], d[4])

\* lines 147-158 in a call configured with d = <<dHigh, dMid, dNeut, dLow>>
DopaOf(epi, predicted, reward, d) ==
    IF Critical(epi)
    THEN compute_dopa_2(predicted, reward, dHigh_crit, dMid_crit, dNeut_crit, dLow_crit)
    ELSE compute_dopa_2(predicted, reward, d[1], d[2], d[3], d[4])

\* lines 146-178 in a call configured with d: the weights after the batch
Trained(epi, Wi, Wa, bIm, hid, act, predicted, reward, d) ==
    LET ach_ == Const(nBatch, 1)
        dopa_ == DopaOf(epi, predicted, reward, d)
        gates == Gates(epi, ach_, dopa_)
        dWi == learningStep(bIm, hid, Wi, lr, gates.hid)
        dWa == learningStep(hid, act, Wa, lr_act, gates.act)
    IN  [W_in |-> Clip(UpdateW_in(epi, Wi, dWi)), W_act |-> Clip(MatAdd(Wa, dWa))]

\* lines 50-67 in both calls: the same seed gives the same weights
PairStartRun ==
    /\ StartRunBody
    /\ W_in2' = W_in'
    /\ W_act2' = W_act'

\* lines 81-178 in both calls.  The activations of the second call are those
\* of the first as far as the weights they are computed from are the same
PairBatch ==
    /\ BatchBody
    /\ IF pc' \in {"shape", "NameError"}
       THEN UNCHANGED pair_vars
       ELSE
       LET drawn == Critical(e) \/ exploration
       IN  \E hid2 \in [1..nBatch -> SoftmaxRows], act2 \in [1..nBatch -> SoftmaxRows] :
           \E pred2 \in [1..nBatch -> 1..nActNeurons] :
            /\ W_in2 = W_in => hid2 = bHidNeurons'
            /\ (W_in2 = W_in /\ W_act2 = W_act) =>
                    /\ act2 = bActNeurons'
                    /\ [k \in 1..nBatch |-> rActions[pred2[k]]] = bPredictActions'
            /\ \A k \in 1..nBatch :
                    ~(drawn /\ exploratory'[k]) => pred2[k] = ArgMax(act2[k])
            /\ LET actions2 == [k \in 1..nBatch |-> rActions[ArgMax(act2[k])]]
                   reward2 == compute_reward_2(Take(rActions, bLabels'), actions2)
                   predicted2 ==
                       IF e_greedy
                       THEN [k \in 1..nBatch |->
                               rActions[pred2[k]] = actions2[k] \/ ~exploratory'[k]]
                       ELSE [k \in 1..nBatch |-> rActions[pred2[k]] = actions2[k]]
                   after == Trained(e, W_in2, W_act2, bImages', hid2, act2,
                                    predicted2, reward2, dParams2)
               IN  /\ W_in2' = after.W_in
                   /\ W_act2' = after.W_act

NextPair ==
    \/ PairStartRun
    \/ StartEpisode
    \/ PairBatch
    \/ EndEpisode
    \/ SaveRun

Next ==
    \/ StartRun
    \/ StartEpisode
    \/ Batch
    \/ EndEpisode
    \/ SaveRun
    \/ Statistics
    \/ Return

Spec == Init /\ [][Next]_vars

SpecRuns == InitRuns /\ [][Next]_vars

\* the configurations in which the exploration policy and the order of the
\* classes vary
InitPolicy ==
    /\ \E n \in 1..Len(AllImages) :
        /\ images = SubSeq(AllImages, 1, n)
        /\ labels = SubSeq(AllLabels, 1, n)
    /\ classes \in ClassSets
    /\ nRun \in 1..MaxRun
    /\ nEpiCrit \in 0..MaxEpiCrit
    /\ nEpiDopa \in 0..MaxEpiDopa
    /\ nRun * (nEpiCrit + nEpiDopa) * Len(images) <= MaxPresented
    /\ nBatch \in 1..Len(images)
    /\ lim_weights = FALSE
    /\ e_greedy \in BOOLEAN
    /\ exploration \in BOOLEAN
    /\ classifier = "actionNeurons"
    /\ seed = 0
    /\ protocol = "digit" /\ images_task = images /\ labels_task = labels
    /\ dParams2 = <<dHigh, dMid, dNeut, dLow>>
    /\ InitLoop
    /\ NoCall

SpecPolicy == InitPolicy /\ [][Next]_vars

\* what the second call is given for <<dHigh, dMid, dNeut, dLow>>
dAlternatives == { <<3, 1, -1, -2>>, <<2, 1, -1, -4>> }

\* the configurations of a pair of calls
InitPair ==
    /\ \E n \in 1..Len(AllImages) :
        /\ images = SubSeq(AllImages, 1, n)
        /\ labels = SubSeq(AllLabels, 1, n)
    /\ classes = <<0, 1>>
    /\ nRun \in 1..MaxRun
    /\ nEpiCrit \in 0..MaxEpiCrit
    /\ nEpiDopa \in 0..MaxEpiDopa
    /\ nRun * (nEpiCrit + nEpiDopa) * Len(images) <= MaxPresented + 1
    /\ nBatch \in 1..Len(images)
    /\ lim_weights = FALSE
    /\ e_greedy = FALSE
    /\ exploration = FALSE
    /\ classifier = "actionNeurons"
    /\ seed = 0
    /\ protocol = "digit" /\ images_task = images /\ labels_task = labels
    /\ dParams2 \in dAlternatives
    /\ InitLoop
    /\ NoCall

SpecPair == InitPair /\ [][NextPair]_vars

\* the task sets of 'gabor': as many examples as images, fewer, or more
TaskImages == << <<9000, 400>>, <<400, 9000>>, <<4700, 4700>> >>
TaskLabels == <<1, 0, 1>>

\* the configurations in which the protocol and the task set vary
InitTask ==
    /\ \E n \in 1..Len(AllImages) :
        /\ images = SubSeq(AllImages, 1, n)
        /\ labels = SubSeq(AllLabels, 1, n)
    /\ classes = <<0, 1>>
    /\ nRun = 1
    /\ nEpiCrit \in 0..MaxEpiCrit
    /\ nEpiDopa \in 0..MaxEpiDopa
    /\ nRun * (nEpiCrit + nEpiDopa) * Len(images) <= MaxPresented
    /\ nBatch \in 1..Len(images)
    /\ lim_weights = FALSE
    /\ e_greedy = FALSE
    /\ exploration = FALSE
    /\ classifier = "actionNeurons"
    /\ seed = 0
    /\ \/ protocol = "digit" /\ images_task = images /\ labels_task = labels
       \/ /\ protocol = "gabor"
          /\ \E n \in 1..Len(TaskImages) :
                /\ images_task = SubSeq(TaskImages, 1, n)
                /\ labels_task = SubSeq(TaskLabels, 1, n)
    /\ dParams2 = <<dHigh, dMid, dNeut, dLow>>
    /\ InitLoop
    /\ NoCall

SpecTask == InitTask /\ [][Next]_vars


(***************************************************************************)
(* The primitives of external.py applied on their own: the arguments are   *)
(* drawn in the initial state and one step applies the function.           *)
(***************************************************************************)
MaxLen == 2            \* the batch of a primitive has 1..MaxLen examples

\* the vectors of length 1..MaxLen over S
Vectors(S) == UNION {[1..n -> S] : n \in 1..MaxLen}

learningStep_args ==
    {[preNeurons |-> P, postNeurons |-> Q, W |-> W0, lr |-> rate, disinhib |-> mod] :
        P \in Vectors({<<0, 3>>, <<2, 1>>}),
        Q \in Vectors({<<4, 0>>, <<1, 3>>}),
        W0 \in {<< <<1, 2>>, <<5, 3>> >>, << <<10, 0>>, <<7, 19>> >>},
        rate \in {1, 3},
        mod \in Vectors({-2, 0, 1})}

compute_reward_args ==
    {[labels |-> l, classes |-> c, actions |-> a, rActions |-> ra] :
        l \in Vectors({0, 1, 2}),
        c \in {<<0, 1>>, <<1, 0>>, <<0, 2>>},
        a \in Vectors({"a", "b", "0"}),
        ra \in {<<"a", "b">>, <<"b", "b">>, <<"a", "0">>}}

compute_dopa_args ==
    {[bPredictActions |-> p, bActions |-> a, bReward |-> rw, d |-> d] :
        p \in Vectors({"a", "b"}),
        a \in Vectors({"a", "b"}),
        rw \in Vectors({0, 1}),
        d \in {<<24, 1, -3, -8>>, <<0, 2, -3, -5>>}}

normalize_args ==
    {[images |-> im, A |-> a] :
        im \in Vectors({<<0, 0>>, <<1, 3>>, <<2, 2>>, <<5, 0>>}),
        a \in {10, 2}}

\* pre-activations that are ordinary, very large, very small and all equal;
\* temperatures 1, 1/2, 2 and 1/10
softmax_args ==
    {[activ |-> x, vectorial |-> v, t |-> t] :
        x \in Vectors({<<3, 1>>, <<0, 0>>, <<1000, 0>>, <<-2000, -2000>>, <<5000, 5000>>}),
        v \in BOOLEAN,
        t \in {<<1, 1>>, <<1, 2>>, <<2, 1>>, <<1, 10>>}}

\* what Network(...), train and test do for the parameter point, and whether
\* <save_path>/networks exists
launch_exploration_args ==
    {[net |-> n, networks_dir |-> d] :
        n \in {[kind |-> "return", value |-> <<90>>],
               [kind |-> "return", value |-> <<55, 60>>],
               [kind |-> "raise", exc |-> "ValueError"],
               [kind |-> "raise", exc |-> "FloatingPointError"],
               [kind |-> "raise", exc |-> "ZeroDivisionError"]},
        d \in BOOLEAN}

\* the explored values: ints, and the floats 0.3, 0.5, 0.25 and
\* 0.30000000000000004 (the float64 of 0.1+0.2)
ExploredValues ==
    {[int |-> 1], [int |-> 30], [frac |-> <<3>>], [frac |-> <<5>>], [frac |-> <<2, 5>>],
     [frac |-> <<3, 0, 0, 0, 0, 0, 0, 0, 0, 0, 0, 0, 0, 0, 0, 0, 4>>]}

\* explore_dict after pypet.cartesian_product: one or two keys, each with its
\* list of values, one value per explored point
set_run_names_args ==
    {[explore_dict |-> d, name |-> <<"n", "e", "t">>] :
        d \in UNION {
            {<<[key |-> <<"l", "r">>, values |-> v]>> :
                v \in [1..n -> ExploredValues]}
            \cup
            {<<[key |-> <<"l", "r">>, values |-> v], [key |-> <<"t">>, values |-> w]>> :
                v \in [1..n -> ExploredValues], w \in [1..n -> {[int |-> 1], [frac |-> <<5>>]}]}
            : n \in 1..MaxLen}}

\* the explored points are pairwise distinct parameter combinations
DistinctPoints(explore_dict) ==
    \A n1, n2 \in 1..Len(explore_dict[1].values) :
        n1 # n2 => \E k \in 1..Len(explore_dict) :
                        explore_dict[k].values[n1] # explore_dict[k].values[n2]

\* the run collections saved, the keys of the configuration, and the files of
\* the run directory that exist besides those save_data writes
save_load_args ==
    {[W_in |-> wi, W_act |-> wa, keys |-> k, files |-> [f \in fs |-> Pickle(0)]] :
        wi \in {[key \in {"000"} |-> w] : w \in W_in_draws},
        wa \in {[key \in {"000"} |-> w] : w \in W_act_draws},
        k \in {KwargsKeys, LoadedKeys \cup {"runName"}},
        fs \in SUBSET {"classResults", "RFclass"}}

\* the performances of the earlier batches, one row per class and two or three
\* columns, and the labels and predicted labels of the batch
track_perf_args ==
    {[perf |-> p, classes |-> <<0, 1>>, bLabels |-> l, pred_bLabels |-> q] :
        p \in UNION {[1..2 -> [1..n -> {FloatDiv(0, 1), FloatDiv(1, 2)}]] : n \in 2..3},
        l \in Vectors({0, 1}),
        q \in Vectors({0, 1})}

\* a batch with its weights, its period, the toggle and the draws of np.random
forward_args ==
    {[bImages |-> im, W_in |-> << <<4, 1>>, <<1, 4>> >>, W_act |-> wa,
      critical |-> c, exploration |-> x, mask |-> mk,
      noise_hid |-> nh, noise_act |-> na] :
        im \in Vectors({<<1, 0>>, <<0, 1>>}),
        wa \in {<< <<2, 1>>, <<1, 2>> >>, << <<2, 1>>, <<2, 1>> >>},
        c \in BOOLEAN, x \in BOOLEAN,
        mk \in Vectors(BOOLEAN),
        nh \in Vectors({<<-5, 0>>, <<0, -5>>}),
        na \in Vectors({<<-5, 0>>, <<0, -5>>})}

InitFn ==
    /\ images = <<>> /\ labels = <<>> /\ classes = <<>>
    /\ nRun = 0 /\ nEpiCrit = 0 /\ nEpiDopa = 0 /\ nBatch = 1
    /\ lim_weights = FALSE /\ e_greedy = FALSE /\ exploration = FALSE
    /\ classifier = "actionNeurons" /\ seed = 0
    /\ protocol = "digit" /\ images_task = <<>> /\ labels_task = <<>>
    /\ dParams2 = <<dHigh, dMid, dNeut, dLow>>
    /\ InitLoop
    /\ ret = <<>>
    /\ \/ fn = "learningStep" /\ arg \in learningStep_args
          /\ Len(arg.preNeurons) = Len(arg.postNeurons)
          /\ Len(arg.preNeurons) = Len(arg.disinhib)
       \/ fn = "compute_reward" /\ arg \in compute_reward_args
          /\ Len(arg.labels) = Len(arg.actions)
       \/ fn = "compute_dopa" /\ arg \in compute_dopa_args
          /\ Len(arg.bPredictActions) = Len(arg.bActions)
          /\ Len(arg.bReward) = Len(arg.bActions)
       \/ fn = "normalize" /\ arg \in normalize_args
       \/ fn = "softmax" /\ arg \in softmax_args
       \/ fn = "launch_exploration" /\ arg \in launch_exploration_args
       \/ fn = "set_run_names" /\ arg \in set_run_names_args
          /\ DistinctPoints(arg.explore_dict)
       \/ fn = "save_load" /\ arg \in save_load_args
       \/ fn = "forward" /\ arg \in forward_args
          /\ Len(arg.mask) = Len(arg.bImages)
          /\ Len(arg.noise_hid) = Len(arg.bImages)
          /\ Len(arg.noise_act) = Len(arg.bImages)
       \/ fn = "track_perf" /\ arg \in track_perf_args
          /\ Len(arg.bLabels) = Len(arg.pred_bLabels)

Call_learningStep ==
    /\ fn = "learningStep" /\ ret = <<>>
    /\ ret' = learningStep(arg.preNeurons, arg.postNeurons, arg.W, arg.lr, arg.disinhib)
    /\ UNCHANGED <<args, pair_vars, batch_vars, loop_vars, run_vars, fn, arg>>

Call_compute_reward ==
    /\ fn = "compute_reward" /\ ret = <<>>
    /\ ret' = compute_reward(arg.labels, arg.classes, arg.actions, arg.rActions)
    /\ UNCHANGED <<args, pair_vars, batch_vars, loop_vars, run_vars, fn, arg>>

Call_compute_dopa ==
    /\ fn = "compute_dopa" /\ ret = <<>>
    /\ ret' = compute_dopa(arg.bPredictActions, arg.bActions, arg.bReward,
                           arg.d[1], arg.d[2], arg.d[3], arg.d[4])
    /\ UNCHANGED <<args, pair_vars, batch_vars, loop_vars, run_vars, fn, arg>>

Call_normalize ==
    /\ fn = "normalize" /\ ret = <<>>
    /\ ret' = normalize(arg.images, arg.A)
    /\ UNCHANGED <<args, pair_vars, batch_vars, loop_vars, run_vars, fn, arg>>

Call_softmax ==
    /\ fn = "softmax" /\ ret = <<>>
    /\ ret' = softmax(arg.activ, arg.vectorial, arg.t)
    /\ UNCHANGED <<args, pair_vars, batch_vars, loop_vars, run_vars, fn, arg>>

Call_launch_exploration ==
    /\ fn = "launch_exploration" /\ ret = <<>>
    /\ ret' = launch_exploration(arg.net, arg.networks_dir)
    /\ UNCHANGED <<args, pair_vars, batch_vars, loop_vars, run_vars, fn, arg>>

Call_set_run_names ==
    /\ fn = "set_run_names" /\ ret = <<>>
    /\ ret' = set_run_names(arg.explore_dict, arg.name)
    /\ UNCHANGED <<args, pair_vars, batch_vars, loop_vars, run_vars, fn, arg>>

\* save_data, then load_data of the same run name from the same directory
Call_save_load ==
    /\ fn = "save_load" /\ ret = <<>>
    /\ ret' = load_data(save_data(arg.files, arg.W_in, arg.W_act, arg.keys))
    /\ UNCHANGED <<args, pair_vars, batch_vars, loop_vars, run_vars, fn, arg>>

Call_track_perf ==
    /\ fn = "track_perf" /\ ret = <<>>
    /\ ret' = track_perf(arg.perf, arg.classes, arg.bLabels, arg.pred_bLabels)
    /\ UNCHANGED <<args, pair_vars, batch_vars, loop_vars, run_vars, fn, arg>>

Call_forward ==
    /\ fn = "forward" /\ ret = <<>>
    /\ ret' = forward(arg.bImages, arg.W_in, arg.W_act, arg.critical, arg.exploration,
                      arg.mask, arg.noise_hid, arg.noise_act)
    /\ UNCHANGED <<args, pair_vars, batch_vars, loop_vars, run_vars, fn, arg>>

NextFn ==
    \/ Call_learningStep
    \/ Call_compute_reward
    \/ Call_compute_dopa
    \/ Call_normalize
    \/ Call_softmax
    \/ Call_launch_exploration
    \/ Call_set_run_names
    \/ Call_save_load
    \/ Call_track_perf
    \/ Call_forward

SpecFn == InitFn /\ [][NextFn]_vars


(***************************************************************************)
(* Properties.                                                             *)
(***************************************************************************)

\* the batch variables hold the values of a batch of episode e
BatchDone == pc = "epi_end" \/ (pc = "batch" /\ b > 0)

\* the index of that batch
LastBatch == IF pc = "epi_end" THEN b ELSE b - 1

HandledCritical == disinhib_Hid = ach /\ disinhib_Act = dopa

\* the batch was handled as the adult period handles it
HandledAdult ==
    /\ disinhib_Hid = [k \in 1..nBatch |-> ach[k] * dopa[k]]
    /\ disinhib_Act = Const(nBatch, 0)

C5_WitnessWhole == pc = "epi_end" /\ nBatch = nImages /\ nImages > 1 /\ b = 0

RuleReward(label, action) ==
    IF \E i \in 1..nClasses : classes[i] = label /\ rActions[i] = action
    THEN 1 ELSE 0

\* C6: the reward of each example of a training batch is 1 if the action taken
\* is the rewarded action registered for the class of its label (rActions[i]
\* where the label is classes[i]), and 0 otherwise.
C6_BatchReward ==
    BatchDone =>
        \A k \in 1..nBatch : bReward[k] = RuleReward(bLabels[k], bActions[k])

\* C7: compute_dopa gives each example, whatever the other examples are, the
\* one value of its outcome: dHigh for prediction # action with reward 1, dMid
\* for prediction = action with reward 1, dNeut for prediction # action with
\* reward 0, dLow for prediction = action with reward 0.
C7_DopaLookup ==
    (fn = "compute_dopa" /\ ret # <<>>) =>
        /\ Len(ret) = Len(arg.bActions)
        /\ \A k \in 1..Len(ret) :
            LET same == arg.bPredictActions[k] = arg.bActions[k]
                rewarded == arg.bReward[k] = 1
            IN  ret[k] = CASE ~same /\ rewarded  -> arg.d[1]
                           [] same /\ rewarded   -> arg.d[2]
                           [] ~same /\ ~rewarded -> arg.d[3]
                           [] same /\ ~rewarded  -> arg.d[4]

\* a batch of two examples of different outcomes, and the batch with every
\* example predicted and rewarded
C7_Witness ==
    /\ fn = "compute_dopa" /\ Len(ret) = 2
    /\ arg.bPredictActions[1] = arg.bActions[1] /\ arg.bReward[1] = 1
    /\ arg.bPredictActions[2] # arg.bActions[2] /\ arg.bReward[2] = 0
    /\ ret = <<arg.d[2], arg.d[3]>> /\ arg.d[2] # arg.d[3] /\ arg.d[3] # arg.d[4]

\* C8: learningStep returns the delta whose entry (i,j) is
\* sum_b P[b,i]*Q[b,j]*lr*mod[b] - W[i,j]*sum_b Q[b,j]*lr*mod[b], and its
\* arguments P, Q and W are after the call what they were before.
C8_Delta ==
    [][ fn = "learningStep" =>
            /\ arg' = arg
            /\ LET P == arg.preNeurons
                   Q == arg.postNeurons
                   nB == Len(arg.disinhib)
               IN  /\ Len(ret') = Len(arg.W)
                   /\ \A i \in 1..Len(arg.W) :
                        /\ Len(ret'[i]) = Len(arg.W[i])
                        /\ \A j \in 1..Len(arg.W[i]) :
                            ret'[i][j] =
                                SumSeq([bb \in 1..nB |->
                                    P[bb][i] * Q[bb][j] * arg.lr * arg.disinhib[bb]])
                                - arg.W[i][j] * SumSeq([bb \in 1..nB |->
                                    Q[bb][j] * arg.lr * arg.disinhib[bb]])
      ]_vars

\* a call on two examples in which both terms of an entry are not zero
C8_Witness ==
    /\ fn = "learningStep" /\ ret # <<>> /\ Len(arg.disinhib) = 2
    /\ \E i, j \in 1..2 :
        /\ SumSeq([bb \in 1..2 |-> arg.preNeurons[bb][i] * arg.postNeurons[bb][j]
                                    * arg.lr * arg.disinhib[bb]]) # 0
        /\ arg.W[i][j] * SumSeq([bb \in 1..2 |-> arg.postNeurons[bb][j]
                                    * arg.lr * arg.disinhib[bb]]) # 0
        /\ ret[i][j] # 0

\* C9: when the modulation vector is all zeros, every entry of the delta that
\* learningStep returns is zero.
C9_ZeroModulation ==
    (fn = "learningStep" /\ ret # <<>> /\ \A bb \in DOMAIN arg.disinhib : arg.disinhib[bb] = 0)
        => \A i \in DOMAIN ret : \A j \in DOMAIN ret[i] : ret[i][j] = 0

\* a call with an all-zero modulation of two examples, on activations, weights
\* and a learning rate that are not zero
C9_Witness ==
    /\ fn = "learningStep" /\ ret # <<>>
    /\ arg.disinhib = <<0, 0>>
    /\ arg.lr # 0
    /\ \E i, j \in 1..2 :
        arg.W[i][j] # 0 /\ arg.preNeurons[1][i] # 0 /\ arg.postNeurons[1][j] # 0


\* C11: a configuration whose classifier name checkClassifier does not accept
\* is rejected before training: no weight matrix is drawn or updated for it.
C11_Rejected ==
    classifier \notin LegalClassifiers => (W_in = <<>> /\ W_act = <<>>)

C14_Collection ==
    [][ LET key3 == <<"000", "001", "002", "003", "004">>
            keys == {key3[i + 1] : i \in 0..(nRun - 1)}
        IN  /\ (pc = "save" =>
                    /\ key3[r + 1] \in DOMAIN W_in_save'
                    /\ key3[r + 1] \in DOMAIN W_act_save'
                    /\ key3[r + 1] \in DOMAIN perf_save'
                    /\ W_in_save'[key3[r + 1]] = W_in
                    /\ W_act_save'[key3[r + 1]] = W_act
                    /\ perf_save'[key3[r + 1]] = <<>>)
            /\ \A key \in DOMAIN W_in_save :
                    /\ key \in DOMAIN W_in_save' /\ W_in_save'[key] = W_in_save[key]
                    /\ key \in DOMAIN W_act_save' /\ W_act_save'[key] = W_act_save[key]
            /\ (pc' = "stats" =>
                    /\ DOMAIN W_in_save' = keys /\ Cardinality(keys) = nRun
                    /\ DOMAIN W_act_save' = keys
                    /\ DOMAIN perf_save' = keys)
      ]_vars

\* a call of two runs has returned, its two entries differ
C14_Witness ==
    /\ pc = "done" /\ nRun = 2
    /\ DOMAIN W_in_save = {"000", "001"}
    /\ W_in_save["000"] # W_in_save["001"]
    /\ W_in_save["001"] = W_in

\* C15: RLnetwork runs from its first statement to its return without reaching
\* a point where it waits for interactive input.
C15_NoSuspension == pc # "pdb"


\* C16: every row of the output of softmax, for every batch and every
\* temperature t > 0, holds no NaN and no Inf and sums to 1: its entries are
\* finite quotients of a finite positive sum.
C16_RowsSumToOne ==
    (fn = "softmax" /\ ret # <<>>) =>
        \A k \in 1..Len(ret) :
            /\ \A i \in 1..Len(ret[k]) : ret[k][i] \in {"pos", "zero"}
            /\ \E i \in 1..Len(ret[k]) : ret[k][i] = "pos"

\* C18: normalize returns finite values for every image, also when the batch
\* holds an image whose pixel sum is zero, and the values of an image with a
\* positive pixel sum add up to A.
C18_NoDivisionByZero ==
    (fn = "normalize" /\ ret # <<>>) =>
        \A k \in 1..Len(ret) :
            /\ \A i \in 1..Len(ret[k]) : ret[k][i].kind = "finite"
            /\ SumSeq(arg.images[k]) > 0 =>
                SumSeq([i \in 1..Len(ret[k]) |-> ret[k][i].num])
                    = arg.A * SumSeq(arg.images[k])

\* C19: an example whose class is mapped to the no-reward symbol '0' gets
\* reward 0 whatever the action taken, the action '0' included.
C19_NoRewardSymbol ==
    (fn = "compute_reward" /\ ret # <<>>) =>
        \A k \in 1..Len(ret) :
            (\E i \in 1..Len(arg.classes) :
                arg.classes[i] = arg.labels[k] /\ arg.rActions[i] = "0")
            => ret[k] = 0


\* C12: launch_exploration records exactly one test_perf result for the
\* point: the measured performance when the run succeeds, and the sentinel
\* [-1.] when it fails, whatever the failure.
C12_OneResult ==
    (fn = "launch_exploration" /\ ret # <<>>) =>
        /\ ret.kind = "return"
        /\ Len(ret.results) = 1
        /\ ret.results[1] = IF arg.net.kind = "return" /\ arg.networks_dir
                            THEN arg.net.value ELSE <<-1>>

\* C17: load_data after save_data of the same run succeeds and returns W_in
\* and W_act equal to the collections that were saved.
C17_RoundTrip ==
    (fn = "save_load" /\ ret # <<>>) =>
        /\ ret.kind = "return"
        /\ ret.W_in = arg.W_in
        /\ ret.W_act = arg.W_act

\* C20: set_run_names gives pairwise distinct names to pairwise distinct
\* parameter combinations.
C20_DistinctNames ==
    (fn = "set_run_names" /\ ret # <<>>) =>
        \A n1, n2 \in 1..Len(ret) : n1 # n2 => ret[n1] # ret[n2]


\* the matrix perf with the last column of every row replaced by v
ReplaceLast(perf, v) ==
    [ic \in 1..Len(perf) |-> [j \in 1..Len(perf[ic]) |->
        IF j = Len(perf[ic]) THEN v ELSE perf[ic][j]]]

\* C24: track_perf returns a matrix of the shape of its input whose columns
\* 1..n-1 are the input's columns 0..n-2; the input's last column is
\* discarded for every class (the result is the same whatever that column
\* held), and no entry comes from a division by zero.
C24_Window ==
    (fn = "track_perf" /\ ret # <<>>) =>
        /\ Len(ret) = Len(arg.perf)
        /\ \A ic \in 1..Len(ret) :
            /\ Len(ret[ic]) = Len(arg.perf[ic])
            /\ \A j \in 2..Len(ret[ic]) : ret[ic][j] = arg.perf[ic][j - 1]
            /\ \A j \in 1..Len(ret[ic]) : ret[ic][j].kind = "finite"
        /\ \A v \in {FloatDiv(0, 1), FloatDiv(1, 2)} :
            track_perf(ReplaceLast(arg.perf, v), arg.classes, arg.bLabels,
                       arg.pred_bLabels) = ret


\* C21: the predicted action of a batch is that of the forward pass without
\* noise, whatever mask and noise are drawn in the batch, and the action taken
\* is the arg-max of the action-layer activation after the noise and the
\* softmax.
C21_PredictBeforeNoise ==
    (fn = "forward" /\ ret # <<>>) =>
        /\ ret.bPredictActions =
             ActionOf(propL1(softmax_wta(propL1(arg.bImages, arg.W_in)), arg.W_act))
        /\ \A k \in 1..Len(arg.bImages) :
             ret.bActions[k] = rActions[ArgMax(ret.bActNeurons[k])]
        /\ LET noisyHid == arg.exploration /\ ~arg.critical
               h1 == IF noisyHid
                     THEN AddNoise(propL1(arg.bImages, arg.W_in), arg.noise_hid, arg.mask)
                     ELSE propL1(arg.bImages, arg.W_in)
               a1 == propL1(softmax_wta(h1), arg.W_act)
           IN  ret.bActNeurons =
                 softmax_wta(IF arg.critical THEN AddNoise(a1, arg.noise_act, arg.mask)
                             ELSE a1)

\* the noise of the action layer made an example take another action than the
\* one predicted for it, and in a second example of the batch it did not
C21_Witness ==
    /\ fn = "forward" /\ ret # <<>> /\ arg.critical
    /\ Len(arg.bImages) = 2
    /\ arg.mask[1] /\ ret.bActions[1] # ret.bPredictActions[1]
    /\ arg.mask[2] /\ ret.bActions[2] = ret.bPredictActions[2]


\* C22: with the exploration toggle off no noise reaches the hidden or the
\* action pre-activations in either period, so every example of the batch
\* takes the action predicted for it.
C22_ToggleOff ==
    (fn = "forward" /\ ret # <<>> /\ ~arg.exploration) =>
        /\ ret.bActions = ret.bPredictActions
        /\ ret.bActNeurons =
             softmax_wta(propL1(softmax_wta(propL1(arg.bImages, arg.W_in)), arg.W_act))


\* C26: under the epsilon-greedy policy every batch computes predicted_reward
\* with a mask drawn in that same batch: the batch draws its mask and its
\* noise from the generator and the name exploratory is bound when line 142
\* reads it.
C26_FreshMask ==
    [][(pc = "batch" /\ e_greedy) =>
          /\ pc' # "NameError"
          /\ rng'.drawn = rng.drawn + 2
          /\ exploratory' # <<>>]_vars


C25_FullBatch ==
    /\ pc # "shape"
    /\ BatchDone => (Len(bImages) = nBatch /\ Len(bLabels) = nBatch)


=============================================================================
